---- MODULE Spec2Model ----
(***************************************************************************)
(* Creative Risk Auditor (src/app.py): the post-processing pipeline that   *)
(* turns model output into a verdict, de-duplicated hotspots, sanitized    *)
(* commentary and a highlighted caption.                                   *)
(*                                                                         *)
(* Each component is a pure function of its inputs; it is modelled as an   *)
(* operator (or, where the code loops, as one action per loop iteration)   *)
(* and exercised by a specification of its own:                            *)
(*   SpecLevel      level_of                                               *)
(*   SpecSanitize   strip_circled, _looks_performance, sanitize_lines      *)
(*   SpecOverall    overall_from_text_image and the tile builders          *)
(*   SpecDedupe     dedupe_hotspots on short lists of arbitrary geometry   *)
(*   SpecDedupeMany dedupe_hotspots on long lists (the truncation to 12)   *)
(*   SpecHighlight  highlight_caption and its helpers                      *)
(*   SpecCaption    SpecHighlight and _merge_ranges on lists of any order  *)
(*   SpecRun        the run block: input checks and the two model calls    *)
(*                                                                         *)
(* Strings are sequences of one-character strings.  The Korean literals of *)
(* the source are written with ASCII names; the comment at each one gives  *)
(* the literal it stands for.                                              *)
(***************************************************************************)
EXTENDS Integers, Sequences, FiniteSets, Bags, TLC

VARIABLES
    pc,          \* position of the component under check
    score,       \* level_of: the argument
    lvl,         \* level_of: the value returned
    lines,       \* sanitize_lines: the argument
    outs,        \* sanitize_lines(lines)
    outs2,       \* sanitize_lines(outs)
    text_dims,   \* overall_from_text_image: core_dimensions of the text result
    image_dims,  \* overall_from_text_image: core_dimensions of the image result
    overall,     \* the verdict returned by overall_from_text_image
    tiles,       \* the scores shown by the eight axis tiles
    hotspots,    \* dedupe_hotspots: the argument
    hs_sorted,   \* dedupe_hotspots: the list sorted by area, descending
    pos,         \* dedupe_hotspots: index of the next entry of hs_sorted
    kept,        \* dedupe_hotspots: the kept entries
    absorbed,    \* ids of the hotspots merged into a kept entry, per kept entry
    result,      \* dedupe_hotspots: the value returned
    caption,     \* highlight_caption: the text argument
    flags,       \* highlight_caption: the flags argument
    ranges,      \* highlight_caption: all_ranges after _merge_ranges
    html_out,    \* highlight_caption: the value returned
    in_ranges,   \* _merge_ranges: the argument
    out_ranges,  \* _merge_ranges: the value returned
    copy_txt,    \* run: the caption entered
    country,     \* run: the country entered
    imgs,        \* run: the uploads, each readable or not
    image_parts, \* run: the image parts prepared from imgs[:3]
    calls,       \* run: the external calls made so far, in order
    text_resp,   \* run: what the client did on the text call
    image_resp,  \* run: what the client did on the image call
    text_raw,    \* run: what call_gemini_text returned
    image_raw,   \* run: what call_gemini_mm returned
    text_risk,   \* run: the parsed text result
    image_risk,  \* run: the parsed (or default) image result
    warned,      \* run: the warnings shown
    failed,      \* run: the steps that reported a parse failure
    produced     \* run: the outputs shown (verdict, tiles, bundle)

vars == <<pc, score, lvl, lines, outs, outs2, text_dims, image_dims, overall,
          tiles, hotspots, hs_sorted, pos, kept, absorbed, result, caption,
          flags, ranges, html_out, in_ranges, out_ranges,
          copy_txt, country, imgs, image_parts,
          calls, text_resp, image_resp, text_raw, image_raw, text_risk,
          image_risk, warned, failed, produced>>

levelVars == <<score, lvl>>
sanVars == <<lines, outs, outs2>>
aggVars == <<text_dims, image_dims, overall, tiles>>
hotVars == <<hotspots, hs_sorted, pos, kept, absorbed, result>>
capVars == <<caption, flags, ranges, html_out, in_ranges, out_ranges>>
runVars == <<copy_txt, country, imgs, image_parts, calls, text_resp,
             image_resp, text_raw, image_raw, text_risk, image_risk, warned,
             failed, produced>>

\* The value of a variable that the specification at hand does not use.
Idle == "idle"

IdleLevel == score = 0 /\ lvl = Idle
IdleSan == lines = <<>> /\ outs = <<>> /\ outs2 = <<>>
IdleAgg == text_dims = <<>> /\ image_dims = <<>> /\ overall = Idle /\ tiles = Idle
IdleHot ==
    /\ hotspots = <<>> /\ hs_sorted = <<>> /\ pos = 0
    /\ kept = <<>> /\ absorbed = <<>> /\ result = <<>>
IdleCap ==
    /\ caption = <<>> /\ flags = <<>> /\ ranges = <<>> /\ html_out = <<>>
    /\ in_ranges = <<>> /\ out_ranges = <<>>
IdleRun ==
    /\ copy_txt = <<>> /\ country = <<>> /\ imgs = <<>> /\ image_parts = <<>>
    /\ calls = <<>> /\ text_resp = Idle /\ image_resp = Idle
    /\ text_raw = Idle /\ image_raw = Idle
    /\ text_risk = Idle /\ image_risk = Idle
    /\ warned = <<>> /\ failed = <<>> /\ produced = {}

Min(a, b) == IF a <= b THEN a ELSE b
Max(a, b) == IF a >= b THEN a ELSE b

(***************************************************************************)
(* 5) Levels: LEVELS and level_of.                                         *)
(***************************************************************************)
\* The level names of LEVELS / PALETTE and the sentinel level_of falls back to.
VerySafe == "VerySafe"      \* "매우 안전"
Safe == "Safe"              \* "안전"
Caution == "Caution"        \* "주의"
Risk == "Risk"              \* "위험"
VeryRisky == "VeryRisky"    \* "매우 위험"
NoLevel == "NoLevel"        \* the dash sentinel returned after the loop

LevelNames == {VerySafe, Safe, Caution, Risk, VeryRisky}

LEVELS_gap ==
    << [lo |-> 21, hi |-> 25, name |-> VerySafe],
       [lo |-> 17, hi |-> 20, name |-> Safe],
       [lo |-> 11, hi |-> 15, name |-> Caution],
       [lo |-> 6, hi |-> 10, name |-> Risk],
       [lo |-> 0, hi |-> 5, name |-> VeryRisky] >>

LEVELS ==
    << [lo |-> 21, hi |-> 25, name |-> VerySafe],
       [lo |-> 16, hi |-> 20, name |-> Safe],
       [lo |-> 11, hi |-> 15, name |-> Caution],
       [lo |-> 6, hi |-> 10, name |-> Risk],
       [lo |-> 0, hi |-> 5, name |-> VeryRisky] >>

\* s = max(0, min(25, int(score)))
ClampScore(s) == Max(0, Min(25, s))

\* The for loop of level_of: the first band holding s, else the sentinel.
level_of(sc) ==
    LET s == ClampScore(sc)
        hits == {i \in 1..Len(LEVELS) : LEVELS[i].lo <= s /\ s <= LEVELS[i].hi}
    IN  IF hits = {} THEN NoLevel
        ELSE LEVELS[CHOOSE i \in hits : \A j \in hits : i <= j].name

\* SpecLevel: scores from -ScoreMargin to 25 + ScoreMargin.
ScoreMargin == 40
ScoreRange == (0 - ScoreMargin)..(25 + ScoreMargin)

InitLevel ==
    /\ pc = "level_start"
    /\ score \in ScoreRange
    /\ lvl = Idle
    /\ IdleSan /\ IdleAgg /\ IdleHot /\ IdleCap /\ IdleRun

CallLevelOf ==
    /\ pc = "level_start"
    /\ lvl' = level_of(score)
    /\ pc' = "level_done"
    /\ UNCHANGED <<runVars, score, sanVars, aggVars, hotVars, capVars>>

NextLevel == CallLevelOf

SpecLevel == InitLevel /\ [][NextLevel]_vars

\* The band a clamped score belongs to, read off the claim's five ranges.
BandOf(s) ==
    IF s >= 21 THEN VerySafe
    ELSE IF s >= 16 THEN Safe
    ELSE IF s >= 11 THEN Caution
    ELSE IF s >= 6 THEN Risk
    ELSE VeryRisky

\* C1: level_of clamps to [0,25] and returns exactly one of the five level
\* names, never the sentinel; the five bands are pairwise disjoint and cover
\* every integer of [0,25]; the level is the one of the score's band.
C1_LevelOfTotal ==
    /\ \A i, j \in 1..Len(LEVELS) :
          i # j => (LEVELS[i].lo..LEVELS[i].hi) \cap (LEVELS[j].lo..LEVELS[j].hi) = {}
    /\ UNION {LEVELS[i].lo..LEVELS[i].hi : i \in 1..Len(LEVELS)} = 0..25
    /\ pc = "level_done" =>
          /\ lvl \in LevelNames
          /\ lvl # NoLevel
          /\ lvl = BandOf(score)
          /\ lvl = level_of(ClampScore(score))
          /\ Cardinality({i \in 1..Len(LEVELS) :
                 LEVELS[i].lo <= ClampScore(score) /\ ClampScore(score) <= LEVELS[i].hi}) = 1

\* A score above 25 has been clamped and classified.
C1_Witness == pc = "level_done" /\ score = 30 /\ lvl = VerySafe

(***************************************************************************)
(* 2) Text normalizer and policy filter: strip_circled,                    *)
(*    _looks_performance, sanitize_lines.                                  *)
(*                                                                         *)
(* A Hangul syllable is written as one character named "k" + its           *)
(* romanization ("kseong" "kgwa" is the keyword written in the source with *)
(* the two syllables seong, gwa); "(1)" and "(2)" stand for two glyphs of  *)
(* CIRCLED_RANGE; " " and "\t" are the whitespace characters.              *)
(***************************************************************************)
Circled == {"(1)", "(2)"}
Whitespace == {" ", "\t"}

Upper == <<"A","B","C","D","E","F","G","H","I","J","K","L","M",
           "N","O","P","Q","R","S","T","U","V","W","X","Y","Z">>
LowerOf == <<"a","b","c","d","e","f","g","h","i","j","k","l","m",
             "n","o","p","q","r","s","t","u","v","w","x","y","z">>

\* str.lower() on one character.
UpperSet == {Upper[i] : i \in 1..Len(Upper)}
LowerChar(c) ==
    IF c \in UpperSet
    THEN LowerOf[CHOOSE i \in 1..Len(Upper) : Upper[i] = c]
    ELSE c

\* str.lower()
Lower(s) == [i \in 1..Len(s) |-> LowerChar(s[i])]

\* needle in hay (substring test of Python's "in")
Contains(hay, needle) ==
    \E i \in 0..(Len(hay) - Len(needle)) :
        \A j \in 1..Len(needle) : hay[i + j] = needle[j]

\* re.sub(CIRCLED_RANGE, "", text)
RemoveCircled(s) == SelectSeq(s, LAMBDA c : c \notin Circled)

\* re.sub(r"\s{2,}", " ", t): every maximal run of two or more whitespace
\* characters becomes one space; a lone whitespace character stays as it is.
RECURSIVE CollapseFrom(_, _)
CollapseFrom(s, i) ==
    IF i > Len(s) THEN <<>>
    ELSE IF s[i] \notin Whitespace THEN <<s[i]>> \o CollapseFrom(s, i + 1)
    ELSE LET stop == CHOOSE j \in (i + 1)..(Len(s) + 1) :
                         /\ \A k \in i..(j - 1) : s[k] \in Whitespace
                         /\ (j = Len(s) + 1 \/ s[j] \notin Whitespace)
         IN  IF stop - i >= 2 THEN <<" ">> \o CollapseFrom(s, stop)
             ELSE <<s[i]>> \o CollapseFrom(s, stop)

CollapseSpaces(s) == CollapseFrom(s, 1)

\* str.strip()
StripWs(s) ==
    LET keep == {i \in 1..Len(s) : s[i] \notin Whitespace}
    IN  IF keep = {} THEN <<>>
        ELSE LET a == CHOOSE i \in keep : \A j \in keep : i <= j
                 b == CHOOSE i \in keep : \A j \in keep : i >= j
             IN  SubSeq(s, a, b)

\* A normalizer that collapses the whitespace before it removes the glyphs.
strip_circled_swapped(text) ==
    IF text = <<>> THEN <<>>
    ELSE StripWs(RemoveCircled(CollapseSpaces(text)))

strip_circled(text) ==
    IF text = <<>> THEN <<>>
    ELSE StripWs(CollapseSpaces(RemoveCircled(text)))

PERF_KEYWORDS ==
    << <<"kjeon", "khwan">>,
       <<"kjeon", "khwan", "kyul">>,
       <<"kkeon", "kbeo", "kjeon">>,
       <<"c", "o", "n", "v", "e", "r", "s", "i", "o", "n">>,
       <<"C", "V", "R">>,
       <<"kgu", "kmae", "kyul">>,
       <<"kmae", "kchul">>,
       <<"R", "e", "v", "e", "n", "u", "e">>,
       <<"R", "O", "A", "S">>,
       <<"C", "P", "A">>,
       <<"C", "A", "C">>,
       <<"kkeul", "klik">>,
       <<"kkeul", "klik", "kryul">>,
       <<"C", "T", "R">>,
       <<"kdo", "kdal">>,
       <<"kno", "kchul", "ksu">>,
       <<"i", "m", "p", "r", "e", "s", "s", "i", "o", "n">>,
       <<"r", "e", "a", "c", "h">>,
       <<"kbeu", "kraen", "kding">>,
       <<"kbeu", "kraen", "kdeu", " ", "kri", "kpeu", "kteu">>,
       <<"kseong", "kgwa">>,
       <<"kpeo", "kpo", "kmeon", "kseu">>,
       <<"khyo", "kyul">>,
       <<"khyo", "kgwa">>,
       <<"kjeon", "kryak", "kjeok">>,
       <<"kseong", "kjang", "kryul">>,
       <<"K", "P", "I">>,
       <<"kteu", "krae", "kpik">>,
       <<"kse", "ksyeon">>,
       <<"kri", "kten", "ksyeon">>,
       <<"kjae", "kbang", "kmun">> >>

\* kw.lower() for every kw of PERF_KEYWORDS
LoweredKeywords == [k \in 1..Len(PERF_KEYWORDS) |-> Lower(PERF_KEYWORDS[k])]

\* A filter that compares without lowering the line.
looks_performance_cased(line) ==
    \E k \in 1..Len(LoweredKeywords) : Contains(line, LoweredKeywords[k])

looks_performance(line) ==
    LET low == Lower(line)
    IN  \E k \in 1..Len(LoweredKeywords) : Contains(low, LoweredKeywords[k])

\* The one line sanitize_lines returns when nothing is left.
FALLBACK_LINE ==
    << "khae", "kdang", " ", "khang", "kmok", "keun", " ", "kseong",
       "kgwa", "kmiddot", "khyo", "kyul", "kgwa", " ", "kmu", "kgwan",
       "kha", "kge", ",", " ", "khyeon", "kjae", " ", "kgi",
       "kjun", "ke", "kseo", " ", "kttu", "kryeot", "khan", " ",
       "knon", "kran", "kmiddot", "kmun", "kje", " ", "kso", "kji",
       "kga", " ", "khwak", "kin", "kdoe", "kji", " ", "kanh",
       "kseup", "kni", "kda", "." >>

\* The for loop of sanitize_lines: outs after the first n lines.
RECURSIVE SanitizeLoop(_, _)
SanitizeLoop(ls, n) ==
    IF n = 0 THEN <<>>
    ELSE LET t == strip_circled(ls[n])
             before == SanitizeLoop(ls, n - 1)
         IN  IF t = <<>> THEN before
             ELSE IF looks_performance(t) THEN before
             ELSE Append(before, t)

sanitize_lines(ls) ==
    LET o == SanitizeLoop(ls, Len(ls))
    IN  IF o = <<>> THEN <<FALLBACK_LINE>> ELSE o

\* SpecSanitize: the lines are all strings over SanAlphabet of length at most
\* MaxLineLen, and the lines of SanSamples; an input holds at most MaxLines.
MaxLineLen == 2
MaxLines == 2
SanAlphabet == {" ", "(1)", "x"}
SanSamples ==
    { FALLBACK_LINE,
      <<"kseong", "kgwa">>,
      <<"kseong", "(1)", "kgwa">>,
      <<"C", "t", "R">>,
      <<"x", " ", "\t", "K", "P", "I", "(2)">>,
      <<"r", "e", "a", "c", "h", "e", "s">>,
      <<"x", "\t", "x", " ", " ", "(1)", " ", "x">>,
      <<"(1)", "o", "k", " ", "(2)", " ", "g", "o">> }

SeqsUpTo(S, n) == UNION {[1..k -> S] : k \in 0..n}
SanLines == SeqsUpTo(SanAlphabet, MaxLineLen) \cup SanSamples
SanInputs == SeqsUpTo(SanLines, MaxLines)

InitSanitize ==
    /\ pc = "san_start"
    /\ lines \in SanInputs
    /\ outs = <<>> /\ outs2 = <<>>
    /\ IdleLevel /\ IdleAgg /\ IdleHot /\ IdleCap /\ IdleRun

\* outs = sanitize_lines(lines)
CallSanitize ==
    /\ pc = "san_start"
    /\ outs' = sanitize_lines(lines)
    /\ pc' = "san_once"
    /\ UNCHANGED <<runVars, lines, outs2, levelVars, aggVars, hotVars, capVars>>

\* outs2 = sanitize_lines(outs): the function applied to its own output
CallSanitizeAgain ==
    /\ pc = "san_once"
    /\ outs2' = sanitize_lines(outs)
    /\ pc' = "san_twice"
    /\ UNCHANGED <<runVars, lines, outs, levelVars, aggVars, hotVars, capVars>>

NextSanitize == CallSanitize \/ CallSanitizeAgain

SpecSanitize == InitSanitize /\ [][NextSanitize]_vars

\* C2: sanitize_lines(sanitize_lines(x)) = sanitize_lines(x) for every x, the
\* empty sequence and a sequence holding the fallback line included, and
\* sanitize_lines(x) is never empty.
C2_SanitizeIdempotent ==
    /\ pc \in {"san_once", "san_twice"} => outs # <<>>
    /\ pc = "san_twice" => outs2 = outs /\ outs2 # <<>>

\* An input holding the fallback line beside a line that is kept, sanitized twice.
C2_Witness ==
    /\ pc = "san_twice"
    /\ \E i \in 1..Len(lines) : lines[i] = FALLBACK_LINE
    /\ \E i \in 1..Len(lines) : lines[i] = <<"x", " ", "x">> \/ lines[i] = <<"x">>
    /\ outs = outs2

\* The normalized lines that pass the filter, by position in the input.
KeptPositions(ls) ==
    {i \in 1..Len(ls) :
        LET t == strip_circled(ls[i])
            low == Lower(t)
        IN  /\ t # <<>>
            /\ \A k \in 1..Len(LoweredKeywords) : ~Contains(low, LoweredKeywords[k])}

\* The a-th smallest element of a set of positions.
NthOf(K, a) == CHOOSE i \in K : Cardinality({j \in K : j < i}) = a - 1

\* C3: sanitize_lines returns, in input order, exactly the normalized forms of
\* the lines that are non-empty after normalization and hold no banned
\* keyword (case-insensitive substring test); a line holding a banned
\* keyword is dropped; when no line remains the output is the one fallback
\* line.
C3_SanitizeFilter ==
    pc \in {"san_once", "san_twice"} =>
        LET K == KeptPositions(lines)
        IN  /\ K = {} => outs = <<FALLBACK_LINE>>
            /\ K # {} =>
                  /\ Len(outs) = Cardinality(K)
                  /\ \A a \in 1..Len(outs) :
                        outs[a] = strip_circled(lines[NthOf(K, a)])
                  /\ \A a \in 1..Len(outs) :
                        /\ outs[a] # <<>>
                        /\ LET low == Lower(outs[a])
                           IN  \A k \in 1..Len(LoweredKeywords) :
                                   ~Contains(low, LoweredKeywords[k])

\* A line with a keyword in another case is dropped and the line after it kept.
C3_Witness ==
    /\ pc = "san_once"
    /\ Len(lines) = 2
    /\ lines[1] = <<"C", "t", "R">>
    /\ lines[2] = <<"x", "\t", "x", " ", " ", "(1)", " ", "x">>
    /\ outs = << <<"x", "\t", "x", " ", "x">> >>

(***************************************************************************)
(* 5) Aggregator: overall_from_text_image; 8) the axis tiles of the run    *)
(*    block.                                                               *)
(*                                                                         *)
(* An entry of core_dimensions is a record with a name and, when the model *)
(* output carries one, a score.                                            *)
(***************************************************************************)
\* order = ["Political", "Cultural", "Environmental", "Social"]
order == <<"Political", "Cultural", "Environmental", "Social">>

TextSrc == "text"       \* worst_src of a text axis ("텍스트")
ImageSrc == "image"     \* worst_src of an image axis ("이미지")

\* int(d.get("score", 0)): the aggregator's reading of an entry
AggScore(d) == IF "score" \in DOMAIN d THEN d.score ELSE 0

\* min(dims, key=...): the first entry of minimum key
FirstMinIndex(dims) ==
    CHOOSE i \in 1..Len(dims) :
        /\ \A j \in 1..Len(dims) : AggScore(dims[i]) <= AggScore(dims[j])
        /\ \A j \in 1..(i - 1) : AggScore(dims[j]) > AggScore(dims[i])

\* min_dim: (axis, score, level) of the first minimum, or the sentinel triple
min_dim(dims) ==
    IF dims = <<>> THEN [axis |-> "", score |-> 25, level |-> NoLevel]
    ELSE LET m == dims[FirstMinIndex(dims)]
         IN  [axis |-> m.name, score |-> AggScore(m), level |-> level_of(AggScore(m))]

\* A comparison that gives a tie to the image.
TextIsWorst_strict(t_score, i_score) == t_score < i_score

\* if t_score <= i_score
TextIsWorst(t_score, i_score) == t_score <= i_score

\* The level, worst axis, worst source and worst score of the returned dict
\* (bg, emoji and summary are fixed by the level).
overall_from_text_image(tdims, idims) ==
    LET t == min_dim(tdims)
        i == min_dim(idims)
        w == IF TextIsWorst(t.score, i.score)
             THEN [src |-> TextSrc, axis |-> t.axis, score |-> t.score]
             ELSE [src |-> ImageSrc, axis |-> i.axis, score |-> i.score]
    IN  [level |-> level_of(w.score), worst_axis |-> w.axis,
         worst_src |-> w.src, worst_score |-> w.score]

\* imap / tmap = {d.get("name"): d for d in dims}: a later entry replaces an
\* earlier one of the same name.  The tile of an axis shows
\* int(d.get("score", 25)) of imap.get(name, default) where the default
\* entry has score 25.
TileScore(dims, name) ==
    LET at == {i \in 1..Len(dims) : dims[i].name = name}
    IN  IF at = {} THEN 25
        ELSE LET d == dims[CHOOSE i \in at : \A j \in at : i >= j]
             IN  IF "score" \in DOMAIN d THEN d.score ELSE 25

\* The four tiles of one source: the score each tile shows.
TileScores(dims) == [k \in 1..Len(order) |-> TileScore(dims, order[k])]

\* SpecOverall: an axis list is a sub-list of the four axes in their order
\* with scores of ScoreSamples, or one of DimSamples.
ScoreSamples == {3, 12, 25}

RECURSIVE DimListsFrom(_)
DimListsFrom(k) ==
    IF k > Len(order) THEN {<<>>}
    ELSE LET rest == DimListsFrom(k + 1)
         IN  rest \cup
             {<<[name |-> order[k], score |-> s]>> \o r : s \in ScoreSamples, r \in rest}

DimSamples ==
    { << [name |-> "Political", score |-> 30], [name |-> "Cultural", score |-> 26],
         [name |-> "Social", score |-> 27] >>,
      << [name |-> "Political", score |-> 0 - 2], [name |-> "Cultural", score |-> 7],
         [name |-> "Environmental", score |-> 18], [name |-> "Social", score |-> 0 - 2] >>,
      << [name |-> "Political"], [name |-> "Cultural", score |-> 25],
         [name |-> "Environmental", score |-> 25], [name |-> "Social", score |-> 25] >>,
      << [name |-> "Political", score |-> 25], [name |-> "Political", score |-> 3],
         [name |-> "Cultural", score |-> 25] >>,
      << [name |-> "Legal", score |-> 3], [name |-> "Cultural", score |-> 25] >>,
      << [name |-> "Social", score |-> 12], [name |-> "Political", score |-> 12] >> }

DimLists == DimListsFrom(1) \cup DimSamples

InitOverall ==
    /\ pc = "agg_start"
    /\ text_dims \in DimLists
    /\ image_dims \in DimLists
    /\ overall = Idle
    /\ tiles = Idle
    /\ IdleLevel /\ IdleSan /\ IdleHot /\ IdleCap /\ IdleRun

\* overall = overall_from_text_image(core_t, core_i)
Aggregate ==
    /\ pc = "agg_start"
    /\ overall' = overall_from_text_image(text_dims, image_dims)
    /\ pc' = "agg_done"
    /\ UNCHANGED <<runVars, text_dims, image_dims, tiles, levelVars, sanVars, hotVars, capVars>>

\* The image tiles: for name in order, the score of imap.get(name, default).
BuildImageTiles ==
    /\ pc = "agg_done"
    /\ tiles' = [image |-> TileScores(image_dims)]
    /\ pc' = "image_tiles_done"
    /\ UNCHANGED <<runVars, text_dims, image_dims, overall, levelVars, sanVars, hotVars, capVars>>

\* The text tiles: for name in order, the score of tmap.get(name, default).
BuildTextTiles ==
    /\ pc = "image_tiles_done"
    /\ tiles' = [image |-> tiles.image, text |-> TileScores(text_dims)]
    /\ pc' = "tiles_done"
    /\ UNCHANGED <<runVars, text_dims, image_dims, overall, levelVars, sanVars, hotVars, capVars>>

NextOverall == Aggregate \/ BuildImageTiles \/ BuildTextTiles

SpecOverall == InitOverall /\ [][NextOverall]_vars

HasScores(dims) == \A i \in 1..Len(dims) : "score" \in DOMAIN dims[i]

\* The entries of 'text axes in input order, then image axes in input order',
\* each with its source.
Tagged(tdims, idims) ==
    [i \in 1..Len(tdims) |-> [src |-> TextSrc, name |-> tdims[i].name, score |-> tdims[i].score]]
    \o
    [i \in 1..Len(idims) |-> [src |-> ImageSrc, name |-> idims[i].name, score |-> idims[i].score]]

\* C7: for two non-empty axis lists with integer scores the verdict reports
\* the source, axis and score of the first entry of minimum score in the
\* sequence 'text axes, then image axes'; the worst source is text exactly
\* when the text minimum is at most the image minimum; the worst axis is the
\* first axis of that source's list reaching the minimum; the level is the
\* level of that minimum.
C7_WorstFirstMinimum ==
    (/\ pc \in {"agg_done", "tiles_done"}
     /\ text_dims # <<>> /\ image_dims # <<>>
     /\ HasScores(text_dims) /\ HasScores(image_dims)) =>
        LET all == Tagged(text_dims, image_dims)
            first == CHOOSE i \in 1..Len(all) :
                        /\ \A j \in 1..Len(all) : all[i].score <= all[j].score
                        /\ \A j \in 1..(i - 1) : all[j].score # all[i].score
            tmin == CHOOSE s \in {text_dims[i].score : i \in 1..Len(text_dims)} :
                        \A i \in 1..Len(text_dims) : s <= text_dims[i].score
            imin == CHOOSE s \in {image_dims[i].score : i \in 1..Len(image_dims)} :
                        \A i \in 1..Len(image_dims) : s <= image_dims[i].score
        IN  /\ overall.worst_src = all[first].src
            /\ overall.worst_axis = all[first].name
            /\ overall.worst_score = all[first].score
            /\ (overall.worst_src = TextSrc) <=> (tmin <= imin)
            /\ overall.worst_score = Min(tmin, imin)
            /\ overall.level = BandOf(overall.worst_score)

\* A tie between the two minima, reached in the text list at its second axis.
C7_Witness ==
    /\ pc = "agg_done"
    /\ Len(text_dims) = 3 /\ Len(image_dims) = 2
    /\ HasScores(text_dims) /\ HasScores(image_dims)
    /\ text_dims[1].score = 25 /\ text_dims[2].score = 12 /\ text_dims[3].score = 12
    /\ image_dims[1].score = 12 /\ image_dims[2].score = 25
    /\ overall.worst_src = TextSrc
    /\ overall.worst_axis = text_dims[2].name
    /\ overall.level = Caution

\* The positions of order whose axis has an entry in dims.
AxesPresent(dims) == {k \in 1..Len(order) : \E i \in 1..Len(dims) : dims[i].name = order[k]}

\* dims holds n of the four axes, once each, in the order of the four axes,
\* each with a score within [0,25].
HoldsAxes(dims, n) ==
    /\ Len(dims) = n
    /\ Cardinality(AxesPresent(dims)) = n
    /\ HasScores(dims)
    /\ \A i \in 1..Len(dims) : 0 <= dims[i].score /\ dims[i].score <= 25
    /\ \A i, j \in 1..Len(dims) :
          i < j => \E a, b \in 1..Len(order) :
                      a < b /\ dims[i].name = order[a] /\ dims[j].name = order[b]

\* dims with every missing axis present at its place in order, with score 25.
WithMissingAt25(dims) ==
    [k \in 1..Len(order) |->
        IF k \in AxesPresent(dims)
        THEN dims[CHOOSE i \in 1..Len(dims) : dims[i].name = order[k]]
        ELSE [name |-> order[k], score |-> 25]]

\* C8: when an axis list holds only three of the four axes, the tile of the
\* missing axis shows 25 and the verdict (level, worst source, worst axis,
\* worst score) is the one returned for the lists in which the missing axis
\* is present at its place with score 25.
C8_MissingAxisCountsAs25 ==
    (/\ pc = "tiles_done"
     /\ HoldsAxes(text_dims, 3) \/ HoldsAxes(text_dims, 4)
     /\ HoldsAxes(image_dims, 3) \/ HoldsAxes(image_dims, 4)
     /\ Len(text_dims) = 3 \/ Len(image_dims) = 3) =>
        /\ \A k \in 1..Len(order) :
              /\ k \notin AxesPresent(text_dims) => tiles.text[k] = 25
              /\ k \notin AxesPresent(image_dims) => tiles.image[k] = 25
        /\ overall = overall_from_text_image(WithMissingAt25(text_dims),
                                             WithMissingAt25(image_dims))

(***************************************************************************)
(* 6) Hotspot geometry: _bbox, _area, _iou, _centerdist, _merge,           *)
(*    dedupe_hotspots.                                                     *)
(*                                                                         *)
(* Coordinates are exact multiples of 1/Unit, written as integers (x = 40  *)
(* is 0.40), and the two thresholds are compared exactly: the rounding of  *)
(* the floating-point arithmetic is not modelled.  A hotspot is a record;  *)
(* its id is the position of the dict in the argument of dedupe_hotspots   *)
(* (a key the code copies along with the others and never reads).  risks   *)
(* and suggested_edits are lists taken up to order, as bags.               *)
(***************************************************************************)
\* 1.0 in model units
Unit == 100

GeomKeys == {"x", "y", "w", "h", "cx", "cy", "r"}

\* h.get(key, default)
Get(h, key, default) == IF key \in DOMAIN h THEN h[key] ELSE default

\* _bbox: (x1, y1, x2, y2); a shape other than "rect" is a circle, and a
\* missing key has the default of the code (0 for a rect; 0.5, 0.5, 0.1 for
\* a circle).
bbox(h) ==
    IF Get(h, "shape", "circle") = "rect"
    THEN LET x == Get(h, "x", 0)
             y == Get(h, "y", 0)
             w == Get(h, "w", 0)
             hgt == Get(h, "h", 0)
         IN  <<x, y, x + w, y + hgt>>
    ELSE LET cx == Get(h, "cx", Unit \div 2)
             cy == Get(h, "cy", Unit \div 2)
             r == Get(h, "r", Unit \div 10)
         IN  <<cx - r, cy - r, cx + r, cy + r>>

\* _area, in units of 1/Unit^2
area(b) == Max(0, b[3] - b[1]) * Max(0, b[4] - b[2])

\* The intersection area and the union area of _iou.
InterArea(b1, b2) ==
    LET ix1 == Max(b1[1], b2[1])
        iy1 == Max(b1[2], b2[2])
        ix2 == Min(b1[3], b2[3])
        iy2 == Min(b1[4], b2[4])
    IN  Max(0, ix2 - ix1) * Max(0, iy2 - iy1)

UnionArea(b1, b2) == area(b1) + area(b2) - InterArea(b1, b2)

\* _iou(b1, b2) > 0.55, where _iou is 0 when the union is 0
IouAbove(b1, b2) ==
    /\ UnionArea(b1, b2) > 0
    /\ 100 * InterArea(b1, b2) > 55 * UnionArea(b1, b2)

\* _centerdist(b1, b2) < 0.12: with dx2, dy2 twice the centre offsets,
\* hypot(dx2, dy2) / (2 * Unit) < 12 / 100
CenterNear(b1, b2) ==
    LET dx2 == (b1[1] + b1[3]) - (b2[1] + b2[3])
        dy2 == (b1[2] + b1[4]) - (b2[2] + b2[4])
    IN  100 * 100 * (dx2 * dx2 + dy2 * dy2) < (12 * 2 * Unit) * (12 * 2 * Unit)

\* The test of the inner loop: if _iou(b, bk) > 0.55 or _centerdist(b, bk) < 0.12
Matches(b, bk) == IouAbove(b, bk) \/ CenterNear(b, bk)

\* _merge(a, b): a's keys, the union of the risks, a's suggested_edits
\* without duplicates followed by b's list, and b's label / severity when a
\* has none.
merge(a, b) ==
    [a EXCEPT
        !.risks = SetToBag(BagToSet(a.risks) \cup BagToSet(b.risks)),
        !.suggested_edits = SetToBag(BagToSet(a.suggested_edits)) (+) b.suggested_edits,
        !.label = IF a.label = "" /\ b.label # "" THEN b.label ELSE a.label,
        !.severity = IF a.severity = "" /\ b.severity # "" THEN b.severity ELSE a.severity]

\* A clamp without the lower end.
Clamp01_upper_only(v) == Min(Unit, v)

\* max(0.0, min(1.0, v))
Clamp01(v) == Max(0, Min(Unit, v))

\* hh = dict(h) with every geometry key present clamped to [0,1]
ClampFields(h) ==
    [k \in DOMAIN h |-> IF k \in GeomKeys THEN Clamp01(h[k]) ELSE h[k]]

\* A sort that puts the smaller areas first.
SortedByArea_ascending(hs) ==
    LET rank(i) == 1 + Cardinality({j \in 1..Len(hs) :
                        \/ area(bbox(hs[j])) < area(bbox(hs[i]))
                        \/ (area(bbox(hs[j])) = area(bbox(hs[i])) /\ j < i)})
    IN  [n \in 1..Len(hs) |-> hs[CHOOSE i \in 1..Len(hs) : rank(i) = n]]

\* sorted(hs, key=area of bbox, reverse=True): descending, and stable (equal
\* areas keep the order of the argument).
SortedByArea(hs) ==
    LET rank(i) == 1 + Cardinality({j \in 1..Len(hs) :
                        \/ area(bbox(hs[j])) > area(bbox(hs[i]))
                        \/ (area(bbox(hs[j])) = area(bbox(hs[i])) /\ j < i)})
    IN  [n \in 1..Len(hs) |-> hs[CHOOSE i \in 1..Len(hs) : rank(i) = n]]

\* The number of entries dedupe_hotspots returns at most.
KeepMax == 12

\* A truncation that lets one more entry through.
TruncateKept_plus_one(k) == SubSeq(k, 1, Min(KeepMax + 1, Len(k)))

\* kept[:12]
TruncateKept(k) == SubSeq(k, 1, Min(KeepMax, Len(k)))

\* The kept entries the hotspot h matches, by index.
MatchingKept(h) == {i \in 1..Len(kept) : Matches(bbox(h), bbox(kept[i]))}

\* hs_sorted = sorted(hs, ...); kept = []
SortHotspots ==
    /\ pc = "dd_start"
    /\ hs_sorted' = SortedByArea(hotspots)
    /\ pos' = 1
    /\ kept' = <<>>
    /\ absorbed' = <<>>
    /\ pc' = "dd_scan"
    /\ UNCHANGED <<runVars, hotspots, result, levelVars, sanVars, aggVars, capVars>>

\* One iteration of the outer loop in which a kept entry matches: the first
\* such entry becomes _merge(k, h).
ScanMerge ==
    /\ pc = "dd_scan"
    /\ pos <= Len(hs_sorted)
    /\ MatchingKept(hs_sorted[pos]) # {}
    /\ LET h == hs_sorted[pos]
           i == CHOOSE m \in MatchingKept(h) : \A n \in MatchingKept(h) : m <= n
       IN  /\ kept' = [kept EXCEPT ![i] = merge(kept[i], h)]
           /\ absorbed' = [absorbed EXCEPT ![i] = @ \cup {h.id}]
    /\ pos' = pos + 1
    /\ UNCHANGED <<runVars, pc, hotspots, hs_sorted, result, levelVars, sanVars, aggVars, capVars>>

\* One iteration of the outer loop in which no kept entry matches: a copy of
\* h with its geometry clamped is appended to kept.
ScanKeep ==
    /\ pc = "dd_scan"
    /\ pos <= Len(hs_sorted)
    /\ MatchingKept(hs_sorted[pos]) = {}
    /\ kept' = Append(kept, ClampFields(hs_sorted[pos]))
    /\ absorbed' = Append(absorbed, {})
    /\ pos' = pos + 1
    /\ UNCHANGED <<runVars, pc, hotspots, hs_sorted, result, levelVars, sanVars, aggVars, capVars>>

\* return kept[:12]
ReturnKept ==
    /\ pc = "dd_scan"
    /\ pos > Len(hs_sorted)
    /\ result' = TruncateKept(kept)
    /\ pc' = "dd_done"
    /\ UNCHANGED <<runVars, hotspots, hs_sorted, pos, kept, absorbed, levelVars, sanVars, aggVars, capVars>>

NextDedupe == SortHotspots \/ ScanMerge \/ ScanKeep \/ ReturnKept

\* SpecDedupe: lists of at most MaxHotspots hotspots whose geometry is drawn
\* from HotGeometries (boxes that overlap, that lie close, of no area, and
\* with coordinates outside [0,1]); the label, severity, risks and
\* suggested_edits of a hotspot go with its position in the list.
MaxHotspots == 3

HotGeometries ==
    { [shape |-> "rect", x |-> 0, y |-> 0, w |-> 40, h |-> 40],
      [shape |-> "rect", x |-> 0, y |-> 0, w |-> 40, h |-> 30],
      [shape |-> "rect", x |-> 0 - 40, y |-> 0, w |-> 80, h |-> 80],
      [shape |-> "rect", x |-> 0 - 40, y |-> 0, w |-> 80, h |-> 70],
      [shape |-> "rect", x |-> 60, y |-> 60, w |-> 50, h |-> 50],
      [shape |-> "rect", x |-> 50, y |-> 50, w |-> 0, h |-> 0],
      [shape |-> "circle", cx |-> 50, cy |-> 50, r |-> 10],
      [shape |-> "circle", cx |-> 55, cy |-> 52, r |-> 9],
      [shape |-> "circle", cx |-> 50, cy |-> 50, r |-> 120] }

HotPayload(i) ==
    CASE i % 4 = 1 -> [label |-> "A", severity |-> "",
                       risks |-> SetToBag({"r1"}), suggested_edits |-> SetToBag({"e1"})]
      [] i % 4 = 2 -> [label |-> "", severity |-> "Risk",
                       risks |-> SetToBag({"r1", "r2"}),
                       suggested_edits |-> SetToBag({"e1", "e2"})]
      [] i % 4 = 3 -> [label |-> "C", severity |-> "Caution",
                       risks |-> EmptyBag, suggested_edits |-> SetToBag({"e2"})]
      [] OTHER -> [label |-> "", severity |-> "",
                   risks |-> SetToBag({"r3"}), suggested_edits |-> EmptyBag]

\* The hotspot at position i of the argument, with geometry g.
HotspotAt(i, g) == g @@ HotPayload(i) @@ [id |-> i]

HotInputs ==
    UNION { {[i \in 1..n |-> HotspotAt(i, gs[i])] : gs \in [1..n -> HotGeometries]} :
            n \in 0..MaxHotspots }

InitDedupe ==
    /\ pc = "dd_start"
    /\ hotspots \in HotInputs
    /\ hs_sorted = <<>> /\ pos = 0 /\ kept = <<>> /\ absorbed = <<>> /\ result = <<>>
    /\ IdleLevel /\ IdleSan /\ IdleAgg /\ IdleCap /\ IdleRun

SpecDedupe == InitDedupe /\ [][NextDedupe]_vars

\* The hotspot at position i of the argument is an entry of the result.
Independent(i) == \E e \in 1..Len(result) : result[e].id = i

\* The hotspot at position i of the argument was merged into a kept entry.
Absorbed(i) == \E e \in 1..Len(absorbed) : i \in absorbed[e]

\* C5: of any two hotspots of the input whose bounding boxes, as given in the
\* input (coordinates outside [0,1] included), have an intersection over
\* union above 0.55, at most one is an independent entry of the output; the
\* other is absorbed into a kept entry.
C5_OverlappingPairMerged ==
    pc = "dd_done" =>
        \A i, j \in 1..Len(hotspots) :
            (i < j /\ IouAbove(bbox(hotspots[i]), bbox(hotspots[j]))) =>
                /\ ~(Independent(i) /\ Independent(j))
                /\ Absorbed(i) \/ Absorbed(j)

\* SpecDedupeMany: lists of ManyMax - 1 or ManyMax hotspots, one per cell of a
\* 5 x 5 grid of cells of side 0.20.  The hotspot of cell k is, by default,
\* a square at the corner of its cell, of side 0.04, 0.06 or 0.08 by k; at
\* most MaxVaried hotspots of a list take another variant:
\*   "right"  the square moved to the right edge of its cell, where it touches
\*            the default square of the next cell without overlapping it;
\*   "out"    the square moved left by 1.0, outside the unit square;
\*   "circle" a circle of radius 0.05 in place of the square.
ManyMax == 14
MaxVaried == 1

CellSide == Unit \div 5
HotVariants == {"right", "out", "circle"}

SlotSide(k) == 4 + 2 * (k % 3)

SlotGeometry(k, v) ==
    LET ox == CellSide * ((k - 1) % 5)
        oy == CellSide * ((k - 1) \div 5)
        s == SlotSide(k)
    IN  CASE v = "right" -> [shape |-> "rect", x |-> ox + CellSide - s, y |-> oy, w |-> s, h |-> s]
          [] v = "out" -> [shape |-> "rect", x |-> ox - Unit, y |-> oy, w |-> s, h |-> s]
          [] v = "circle" -> [shape |-> "circle", cx |-> ox + 5, cy |-> oy + 5, r |-> 5]
          [] OTHER -> [shape |-> "rect", x |-> ox, y |-> oy, w |-> s, h |-> s]

\* The assignments of a variant to at most MaxVaried of the cells 1..n.
VariantChoices(n) ==
    UNION { [D -> HotVariants] : D \in {S \in SUBSET (1..n) : Cardinality(S) <= MaxVaried} }

ManyInputs ==
    UNION { {[i \in 1..n |->
                HotspotAt(i, SlotGeometry(i, IF i \in DOMAIN c THEN c[i] ELSE "default"))] :
             c \in VariantChoices(n)} :
            n \in (ManyMax - 1)..ManyMax }

InitDedupeMany ==
    /\ pc = "dd_start"
    /\ hotspots \in ManyInputs
    /\ hs_sorted = <<>> /\ pos = 0 /\ kept = <<>> /\ absorbed = <<>> /\ result = <<>>
    /\ IdleLevel /\ IdleSan /\ IdleAgg /\ IdleCap /\ IdleRun

SpecDedupeMany == InitDedupeMany /\ [][NextDedupe]_vars

\* The place of the hotspot with id i in the scan order.
ScanPlace(i) == CHOOSE n \in 1..Len(hs_sorted) : hs_sorted[n].id = i

\* The area of the bounding box of the hotspot with id i, as given in the input.
InputArea(i) == area(bbox(hotspots[i]))

\* The ids of the hotspots that were kept as entries of their own, in the
\* order of the scan.
KeptIds == [e \in 1..Len(kept) |-> kept[e].id]

\* C4: dedupe_hotspots returns at most 12 entries, and they are the first 12
\* kept entries in the area-descending order of the merge scan.
C4_AtMostTwelveInScanOrder ==
    pc = "dd_done" =>
        /\ Len(result) <= 12
        /\ Len(result) = Min(12, Len(kept))
        /\ \A e \in 1..Len(result) : result[e] = kept[e]
        /\ \A e, f \in 1..Len(kept) :
              e < f =>
                 /\ ScanPlace(kept[e].id) < ScanPlace(kept[f].id)
                 /\ InputArea(kept[e].id) >= InputArea(kept[f].id)
        /\ \A f \in 1..Len(kept) :
              f > Len(result) =>
                 \A e \in 1..Len(result) : ScanPlace(kept[e].id) < ScanPlace(kept[f].id)

\* More than 12 entries were kept, one of them with a hotspot merged into
\* it, and 12 were returned.
C4_Witness ==
    /\ pc = "dd_done"
    /\ Len(kept) = 13
    /\ \E e \in 1..Len(absorbed) : absorbed[e] # {}
    /\ Len(result) = 12

\* The bounding boxes of the input hotspots i and j share no area.
NoOverlap(i, j) == InterArea(bbox(hotspots[i]), bbox(hotspots[j])) = 0

\* Every geometry field of the hotspot lies within [0,1].
FieldsInUnit(h) == \A k \in DOMAIN h \cap GeomKeys : 0 <= h[k] /\ h[k] <= Unit

\* The result holds exactly 12 entries, each an input hotspot of its own with
\* nothing merged into it, in descending order of area, and no hotspot left
\* out has a larger area than one returned.
TwelveLargestUnmerged ==
    /\ Len(result) = 12
    /\ \A e, f \in 1..Len(result) : e # f => result[e].id # result[f].id
    /\ \A e \in 1..Len(result) :
          /\ absorbed[e] = {}
          /\ result[e].risks = hotspots[result[e].id].risks
          /\ result[e].suggested_edits = hotspots[result[e].id].suggested_edits
          /\ result[e].label = hotspots[result[e].id].label
          /\ bbox(result[e]) = bbox(ClampFields(hotspots[result[e].id]))
    /\ \A e \in 1..(Len(result) - 1) :
          InputArea(result[e].id) >= InputArea(result[e + 1].id)
    /\ \A i \in 1..Len(hotspots) :
          (\A e \in 1..Len(result) : result[e].id # i) =>
              \A e \in 1..Len(result) : InputArea(i) <= InputArea(result[e].id)

QuoteChars == {"(lq)", "(rq)", "\"", "'"}

\* re.findall(r"[q]([^q]+)[q]", iss) from offset i on: a quote character, the
\* longest run of characters that are not quotes (at least one), a quote
\* character; the search goes on after the closing quote.
RECURSIVE QuotedFrom(_, _)
QuotedFrom(iss, i) ==
    IF i > Len(iss) THEN {}
    ELSE IF iss[i] \notin QuoteChars THEN QuotedFrom(iss, i + 1)
    ELSE LET stop == CHOOSE j \in (i + 1)..(Len(iss) + 1) :
                         /\ \A k \in (i + 1)..(j - 1) : iss[k] \notin QuoteChars
                         /\ (j = Len(iss) + 1 \/ iss[j] \in QuoteChars)
         IN  IF stop > i + 1 /\ stop <= Len(iss)
             THEN {SubSeq(iss, i + 1, stop - 1)} \cup QuotedFrom(iss, stop + 1)
             ELSE QuotedFrom(iss, i + 1)

\* The strings appended to spans for one flag, before the filter on length.
FlagSpans(f) ==
    LET own == IF StripWs(f.span) # <<>> THEN {StripWs(f.span)} ELSE {}
        quoted == UNION {QuotedFrom(f.issues[n], 1) : n \in 1..Len(f.issues)}
    IN  own \cup {StripWs(m) : m \in {x \in quoted : StripWs(x) # <<>>}}

\* _extract_spans_from_flags, as the set of its entries: the list is sorted by
\* descending length with equal lengths in no fixed order, and the order
\* does not reach the result (the ranges are sorted before they are merged).
extract_spans_from_flags(fs) ==
    {s \in UNION {FlagSpans(fs[n]) : n \in 1..Len(fs)} : Len(s) >= 2}

\* The needle matches the text at offset p, ignoring case.
MatchesAt(text, needle, p) ==
    /\ p + Len(needle) <= Len(text)
    /\ \A j \in 1..Len(needle) : LowerChar(text[p + j]) = LowerChar(needle[j])

\* pattern.finditer(text) from offset p on: the matches from left to right,
\* each search starting where the match before it ended.
RECURSIVE FindFrom(_, _, _)
FindFrom(text, needle, p) ==
    IF p + Len(needle) > Len(text) THEN <<>>
    ELSE IF MatchesAt(text, needle, p)
         THEN <<<<p, p + Len(needle)>>>> \o FindFrom(text, needle, p + Len(needle))
         ELSE FindFrom(text, needle, p + 1)

\* _find_all_ranges
find_all_ranges(text, needle) ==
    IF needle = <<>> THEN <<>> ELSE FindFrom(text, needle, 0)

\* ranges.sort(): by start, then by end
SortRanges(rs) ==
    LET before(a, b) == a[1] < b[1] \/ (a[1] = b[1] /\ a[2] < b[2])
        rank(i) == 1 + Cardinality({j \in 1..Len(rs) :
                        before(rs[j], rs[i]) \/ (rs[j] = rs[i] /\ j < i)})
    IN  [n \in 1..Len(rs) |-> rs[CHOOSE i \in 1..Len(rs) : rank(i) = n]]

\* The loop of _merge_ranges over the sorted list, after its first n entries.
RECURSIVE MergeLoop(_, _)
MergeLoop(rs, n) ==
    IF n = 1 THEN <<rs[1]>>
    ELSE LET merged == MergeLoop(rs, n - 1)
             l == merged[Len(merged)]
         IN  IF rs[n][1] <= l[2]
             THEN [merged EXCEPT ![Len(merged)] = <<l[1], Max(l[2], rs[n][2])>>]
             ELSE Append(merged, rs[n])

\* A merge that leaves out the sort.
merge_ranges_unsorted(rs) == IF rs = <<>> THEN <<>> ELSE MergeLoop(rs, Len(rs))

\* _merge_ranges
merge_ranges(rs) == IF rs = <<>> THEN <<>> ELSE MergeLoop(SortRanges(rs), Len(rs))

\* all_ranges of highlight_caption before the merge: the ranges of every
\* span, one span after the other.
RECURSIVE AllRangesOf(_, _)
AllRangesOf(text, spans) ==
    IF spans = {} THEN <<>>
    ELSE LET sp == CHOOSE s \in spans : \A t \in spans : Len(s) >= Len(t)
         IN  find_all_ranges(text, sp) \o AllRangesOf(text, spans \ {sp})

\* An escape that leaves "<" and ">" as they are.
RECURSIVE html_escape_amp_only(_)
html_escape_amp_only(s) ==
    IF s = <<>> THEN <<>>
    ELSE (IF Head(s) = "&" THEN <<"&", "a", "m", "p", ";">> ELSE <<Head(s)>>)
         \o html_escape_amp_only(Tail(s))

\* html.escape(s): & < > " ' become &amp; &lt; &gt; &quot; &#x27;
RECURSIVE html_escape(_)
html_escape(s) ==
    IF s = <<>> THEN <<>>
    ELSE (CASE Head(s) = "&" -> <<"&", "a", "m", "p", ";">>
            [] Head(s) = "<" -> <<"&", "l", "t", ";">>
            [] Head(s) = ">" -> <<"&", "g", "t", ";">>
            [] Head(s) = "\"" -> <<"&", "q", "u", "o", "t", ";">>
            [] Head(s) = "'" -> <<"&", "#", "x", "2", "7", ";">>
            [] OTHER -> <<Head(s)>>)
         \o html_escape(Tail(s))

\* "<div class='caption-strong'>"
DIV_OPEN ==
    << "<", "d", "i", "v", " ", "c", "l", "a", "s", "s", "=", "'",
       "c", "a", "p", "t", "i", "o", "n", "-", "s", "t", "r", "o",
       "n", "g", "'", ">" >>
\* "</div>"
DIV_CLOSE == << "<", "/", "d", "i", "v", ">" >>
\* "<span class='caption-flag'>"
SPAN_OPEN ==
    << "<", "s", "p", "a", "n", " ", "c", "l", "a", "s", "s", "=",
       "'", "c", "a", "p", "t", "i", "o", "n", "-", "f", "l", "a",
       "g", "'", ">" >>
\* "</span>"
SPAN_CLOSE == << "<", "/", "s", "p", "a", "n", ">" >>

\* original[a:b]
Slice(s, a, b) == SubSeq(s, a + 1, b)

\* "".join(parts) for the ranges from the k-th on, with last the end of the
\* range before.
RECURSIVE PartsFrom(_, _, _, _)
PartsFrom(original, rs, k, last) ==
    IF k > Len(rs)
    THEN IF last < Len(original) THEN html_escape(Slice(original, last, Len(original)))
         ELSE <<>>
    ELSE (IF last < rs[k][1] THEN html_escape(Slice(original, last, rs[k][1])) ELSE <<>>)
         \o SPAN_OPEN \o html_escape(Slice(original, rs[k][1], rs[k][2])) \o SPAN_CLOSE
         \o PartsFrom(original, rs, k + 1, rs[k][2])

\* A caption is drawn from the sequences over CapAlphabet up to MaxCaptionLen
\* characters and from CapSamples; the flags from FlagPool, up to MaxFlags.
MaxCaptionLen == 3
MaxFlags == 1

CapAlphabet == {"a", "A", "<", "&"}

CapSamples ==
    { <<"a", ">", "'", "\"", "a", "a", "a">>,
      <<"&", "a", "m", "p", ";", "A", "a">> }

CapInputs == SeqsUpTo(CapAlphabet, MaxCaptionLen) \cup CapSamples

FlagPool ==
    { [span |-> <<"a", "a">>, issues |-> <<>>],
      [span |-> <<" ", "a", "&", " ">>, issues |-> <<>>],
      [span |-> <<>>,
       issues |-> << <<"x", " ", "'", "A", "<", "'", " ", "\"", "a", "\"">> >>],
      [span |-> <<"a">>,
       issues |-> << <<"(lq)", "a", "a", "b", "(rq)">> >>],
      [span |-> <<">", "'">>, issues |-> <<>>],
      [span |-> <<"\t">>,
       issues |-> << <<"'", "&", "a", "\"", "<", "<">>, <<"'", " ", "'">> >>] }

FlagInputs == SeqsUpTo(FlagPool, MaxFlags)

InitHighlight ==
    /\ pc = "cap_start"
    /\ caption \in CapInputs
    /\ flags \in FlagInputs
    /\ ranges = <<>>
    /\ html_out = <<>>
    /\ in_ranges = <<>> /\ out_ranges = <<>>
    /\ IdleLevel /\ IdleSan /\ IdleAgg /\ IdleHot /\ IdleRun

\* spans = _extract_spans_from_flags(flags); all_ranges = the merged ranges
\* of every span in the caption.
CollectRanges ==
    /\ pc = "cap_start"
    /\ ranges' = merge_ranges(AllRangesOf(caption, extract_spans_from_flags(flags)))
    /\ pc' = "cap_ranges"
    /\ UNCHANGED <<runVars, in_ranges, out_ranges, caption, flags, html_out, levelVars, sanVars, aggVars, hotVars>>

\* if not all_ranges: the whole caption escaped inside the wrapper
RenderPlain ==
    /\ pc = "cap_ranges"
    /\ ranges = <<>>
    /\ html_out' = DIV_OPEN \o html_escape(caption) \o DIV_CLOSE
    /\ pc' = "cap_done"
    /\ UNCHANGED <<runVars, in_ranges, out_ranges, caption, flags, ranges, levelVars, sanVars, aggVars, hotVars>>

\* otherwise the parts between the ranges escaped and each range escaped
\* inside a caption-flag span
RenderHighlighted ==
    /\ pc = "cap_ranges"
    /\ ranges # <<>>
    /\ html_out' = DIV_OPEN \o PartsFrom(caption, ranges, 1, 0) \o DIV_CLOSE
    /\ pc' = "cap_done"
    /\ UNCHANGED <<runVars, in_ranges, out_ranges, caption, flags, ranges, levelVars, sanVars, aggVars, hotVars>>

NextHighlight == CollectRanges \/ RenderPlain \/ RenderHighlighted

SpecHighlight == InitHighlight /\ [][NextHighlight]_vars

\* pat is in s at index i (counted from 1).
StartsWithAt(s, pat, i) ==
    /\ i >= 1
    /\ i + Len(pat) - 1 <= Len(s)
    /\ SubSeq(s, i, i + Len(pat) - 1) = pat

\* The returned value without the outer div.
CaptionBody(out) == SubSeq(out, Len(DIV_OPEN) + 1, Len(out) - Len(DIV_CLOSE))

\* s from index i on without the caption-flag span tags.
RECURSIVE WithoutSpanTags(_, _)
WithoutSpanTags(s, i) ==
    IF i > Len(s) THEN <<>>
    ELSE IF StartsWithAt(s, SPAN_OPEN, i) THEN WithoutSpanTags(s, i + Len(SPAN_OPEN))
    ELSE IF StartsWithAt(s, SPAN_CLOSE, i) THEN WithoutSpanTags(s, i + Len(SPAN_CLOSE))
    ELSE <<s[i]>> \o WithoutSpanTags(s, i + 1)

EntityAmp == <<"&", "a", "m", "p", ";">>
EntityLt == <<"&", "l", "t", ";">>
EntityGt == <<"&", "g", "t", ";">>
Entities == {EntityAmp, EntityLt, EntityGt,
             <<"&", "q", "u", "o", "t", ";">>, <<"&", "#", "x", "2", "7", ";">>}

CountOf(s, c) == Cardinality({i \in DOMAIN s : s[i] = c})
CountEntity(s, e) == Cardinality({i \in DOMAIN s : StartsWithAt(s, e, i)})

\* C9: in the value highlight_caption returns, whether or not a range
\* matched, the only unescaped markup is the wrapper (the outer div and one
\* caption-flag span per highlighted range): with the wrapper taken away no
\* "<" and no ">" is left, every "&" begins an entity, and each "<", ">"
\* and "&" of the caption has its entity.
C9_OnlyWrapperUnescaped ==
    pc = "cap_done" =>
        LET body == WithoutSpanTags(CaptionBody(html_out), 1)
        IN  /\ StartsWithAt(html_out, DIV_OPEN, 1)
            /\ StartsWithAt(html_out, DIV_CLOSE, Len(html_out) - Len(DIV_CLOSE) + 1)
            /\ \A i \in DOMAIN body :
                   /\ body[i] \notin {"<", ">"}
                   /\ body[i] = "&" => \E e \in Entities : StartsWithAt(body, e, i)
            /\ CountOf(html_out, "<") = 2 + 2 * Len(ranges)
            /\ CountOf(html_out, ">") = 2 + 2 * Len(ranges)
            /\ CountEntity(body, EntityLt) = CountOf(caption, "<")
            /\ CountEntity(body, EntityGt) = CountOf(caption, ">")
            /\ CountEntity(body, EntityAmp) = CountOf(caption, "&")

\* A caption has been rendered with a "<", ">" or "&" inside a highlighted
\* range and another one outside every range.
C9_Witness ==
    /\ pc = "cap_done"
    /\ \E k \in DOMAIN ranges : \E i \in DOMAIN caption :
           /\ caption[i] \in {"<", ">", "&"}
           /\ ranges[k][1] < i /\ i <= ranges[k][2]
    /\ \E j \in DOMAIN caption :
           /\ caption[j] \in {"<", ">", "&"}
           /\ \A k \in DOMAIN ranges : ~(ranges[k][1] < j /\ j <= ranges[k][2])

\* C10: every occurrence of a candidate span (two characters or more, drawn
\* from the flags) in the caption, compared without case and counting the
\* occurrences that overlap one another, lies inside one highlighted range;
\* and every highlighted character belongs to an occurrence of a candidate,
\* so a candidate that does not occur highlights nothing.
C10_EveryOccurrenceHighlighted ==
    pc = "cap_done" =>
        LET spans == extract_spans_from_flags(flags)
        IN  /\ \A sp \in spans : \A p \in 0..Len(caption) :
                   MatchesAt(caption, sp, p) =>
                       \E k \in DOMAIN ranges :
                           ranges[k][1] <= p /\ p + Len(sp) <= ranges[k][2]
            /\ \A k \in DOMAIN ranges : \A i \in ranges[k][1]..(ranges[k][2] - 1) :
                   \E sp \in spans : \E p \in 0..i :
                       MatchesAt(caption, sp, p) /\ i < p + Len(sp)

(***************************************************************************)
(* 8) Run: the block under "if go" up to the two model calls, with         *)
(*    call_gemini_text, call_gemini_mm, parse_json_or_fail, to_image_part. *)
(*                                                                         *)
(* A response or an exception message is a sequence of tokens: "{" and "}" *)
(* are the braces, "p" stands for the members of a JSON object (one or     *)
(* more "key": value pairs), "x" for any other text, " " for white space.  *)
(* The objects of this token language are {} and {p}.                      *)
(***************************************************************************)
\* What json.loads makes of a slice.
JsonInvalid == "invalid"    \* json.loads raises
EmptyObject == "{}"         \* the empty dict
AnObject == "{p}"           \* a dict with members

\* json.loads(s), white space between the tokens skipped
JsonLoads(s) ==
    LET toks == SelectSeq(s, LAMBDA c : c \notin Whitespace)
    IN  IF toks = <<"{", "}">> THEN EmptyObject
        ELSE IF toks = <<"{", "p", "}">> THEN AnObject
        ELSE JsonInvalid

\* raw.find(c) and raw.rfind(c) counted from 1; 0 stands for -1
Find(raw, c) ==
    IF \E i \in DOMAIN raw : raw[i] = c
    THEN CHOOSE i \in DOMAIN raw : raw[i] = c /\ \A j \in 1..(i - 1) : raw[j] # c
    ELSE 0
RFind(raw, c) ==
    IF \E i \in DOMAIN raw : raw[i] = c
    THEN CHOOSE i \in DOMAIN raw : raw[i] = c /\ \A j \in (i + 1)..Len(raw) : raw[j] # c
    ELSE 0

\* The value of data in parse_json_or_fail before "if not data".
ParsedData(raw) ==
    LET s == Find(raw, "{")
        e == RFind(raw, "}")
    IN  IF s # 0 /\ e # 0 /\ e > s THEN JsonLoads(SubSeq(raw, s, e)) ELSE JsonInvalid

\* "if not data": None and the empty dict stop the run.
ParseFails(raw) == ParsedData(raw) \in {JsonInvalid, EmptyObject}

\* "Gemini Error: "
GEMINI_ERROR ==
    <<"G", "e", "m", "i", "n", "i", " ", "E", "r", "r", "o", "r", ":", " ">>

\* call_gemini_text and call_gemini_mm: the stripped text of the response,
\* or "Gemini Error: " and the message of the exception the client raised.
call_gemini(resp) ==
    IF resp.raises THEN GEMINI_ERROR \o resp.text ELSE StripWs(resp.text)

\* Texts a response can carry; <<>> is also a response without text.
RespTexts ==
    { <<"{", "p", "}">>,
      <<" ", "{", " ", "p", "}", " ">>,
      <<"x", "{", "p", "}", "x">>,
      <<>>,
      <<"x">>,
      <<"{", "}">>,
      <<"}", "p", "{">>,
      <<"{", "p">>,
      <<"{", "p", "}", "x", "}">> }

\* Messages of the exceptions the client can raise: plain text, the repr of
\* a dict (braces, not JSON), and a JSON body.
ErrTexts == { <<"x">>, <<"{", "x", "}">>, <<"{", "p", "}">> }

ClientOutcomes ==
    {[raises |-> FALSE, text |-> t] : t \in RespTexts}
        \cup {[raises |-> TRUE, text |-> m] : m \in ErrTexts}

\* not (copy_txt or imgs)
InputMissing(txt, ups) == txt = <<>> /\ ups = <<>>

\* A check that lets every country through.
CountryMissing_never(c) == FALSE

\* not country
CountryMissing(c) == c = <<>>

\* imgs[:3]
MaxImageParts == 3

\* to_image_part(up) for up in imgs[:3], the None results left out
PreparedParts(ups) ==
    SelectSeq(SubSeq(ups, 1, Min(MaxImageParts, Len(ups))), LAMBDA up : up = "readable")

\* The image result used when no image part was prepared.
DefaultImageRisk == "default"

RunOutputs == {"overall", "overlays", "image_tiles", "caption", "text_tiles", "bundle"}

\* The run is exercised with up to MaxUploads uploads.
MaxUploads == 4

CopySamples == { <<>>, <<" ">>, <<"a">> }
CountrySamples == { <<>>, <<" ">>, <<"I", "N">> }
UploadLists == SeqsUpTo({"readable", "unreadable"}, MaxUploads)

runInputs == <<copy_txt, country, imgs>>
componentVars == <<levelVars, sanVars, aggVars, hotVars, capVars>>

\* The state when the button is pressed.
InitRun ==
    /\ pc = "run_go"
    /\ copy_txt \in CopySamples
    /\ country \in CountrySamples
    /\ imgs \in UploadLists
    /\ image_parts = <<>>
    /\ calls = <<>> /\ text_resp = Idle /\ image_resp = Idle
    /\ text_raw = Idle /\ image_raw = Idle
    /\ text_risk = Idle /\ image_risk = Idle
    /\ warned = <<>> /\ failed = <<>> /\ produced = {}
    /\ IdleLevel /\ IdleSan /\ IdleAgg /\ IdleHot /\ IdleCap

\* if not (copy_txt or imgs): warning, st.stop()
WarnNoInput ==
    /\ pc = "run_go"
    /\ InputMissing(copy_txt, imgs)
    /\ warned' = Append(warned, "need_input")
    /\ pc' = "run_stopped"
    /\ UNCHANGED <<runInputs, image_parts, calls, text_resp, image_resp,
                   text_raw, image_raw, text_risk, image_risk, failed,
                   produced, componentVars>>

\* if not country: warning, st.stop()
WarnNoCountry ==
    /\ pc = "run_go"
    /\ ~InputMissing(copy_txt, imgs)
    /\ CountryMissing(country)
    /\ warned' = Append(warned, "need_country")
    /\ pc' = "run_stopped"
    /\ UNCHANGED <<runInputs, image_parts, calls, text_resp, image_resp,
                   text_raw, image_raw, text_risk, image_risk, failed,
                   produced, componentVars>>

\* Both checks passed: image_parts from imgs[:3].
PrepareImages ==
    /\ pc = "run_go"
    /\ ~InputMissing(copy_txt, imgs)
    /\ ~CountryMissing(country)
    /\ image_parts' = PreparedParts(imgs)
    /\ pc' = "run_text"
    /\ UNCHANGED <<runInputs, calls, text_resp, image_resp, text_raw,
                   image_raw, text_risk, image_risk, warned, failed,
                   produced, componentVars>>

\* text_raw = call_gemini_text(...)
CallText ==
    /\ pc = "run_text"
    /\ \E r \in ClientOutcomes :
           /\ text_resp' = r
           /\ text_raw' = call_gemini(r)
    /\ calls' = Append(calls, "text")
    /\ pc' = "run_text_parse"
    /\ UNCHANGED <<runInputs, image_parts, image_resp, image_raw, text_risk,
                   image_risk, warned, failed, produced, componentVars>>

\* parse_json_or_fail(text_raw, ...): error, raw output shown, st.stop()
TextParseFails ==
    /\ pc = "run_text_parse"
    /\ ParseFails(text_raw)
    /\ failed' = Append(failed, "text")
    /\ pc' = "run_stopped"
    /\ UNCHANGED <<runInputs, image_parts, calls, text_resp, image_resp,
                   text_raw, image_raw, text_risk, image_risk, warned,
                   produced, componentVars>>

\* text_risk = parse_json_or_fail(text_raw, ...)
TextParsed ==
    /\ pc = "run_text_parse"
    /\ ~ParseFails(text_raw)
    /\ text_risk' = ParsedData(text_raw)
    /\ pc' = "run_image"
    /\ UNCHANGED <<runInputs, image_parts, calls, text_resp, image_resp,
                   text_raw, image_raw, image_risk, warned, failed, produced,
                   componentVars>>

\* if image_parts: image_raw = call_gemini_mm(...)
CallImage ==
    /\ pc = "run_image"
    /\ image_parts # <<>>
    /\ \E r \in ClientOutcomes :
           /\ image_resp' = r
           /\ image_raw' = call_gemini(r)
    /\ calls' = Append(calls, "image")
    /\ pc' = "run_image_parse"
    /\ UNCHANGED <<runInputs, image_parts, text_resp, text_raw, text_risk,
                   image_risk, warned, failed, produced, componentVars>>

\* else: image_risk is the canned result with every axis at 25
DefaultImage ==
    /\ pc = "run_image"
    /\ image_parts = <<>>
    /\ image_risk' = DefaultImageRisk
    /\ pc' = "run_render"
    /\ UNCHANGED <<runInputs, image_parts, calls, text_resp, image_resp,
                   text_raw, image_raw, text_risk, warned, failed, produced,
                   componentVars>>

\* parse_json_or_fail(image_raw, ...): error, raw output shown, st.stop()
ImageParseFails ==
    /\ pc = "run_image_parse"
    /\ ParseFails(image_raw)
    /\ failed' = Append(failed, "image")
    /\ pc' = "run_stopped"
    /\ UNCHANGED <<runInputs, image_parts, calls, text_resp, image_resp,
                   text_raw, image_raw, text_risk, image_risk, warned,
                   produced, componentVars>>

\* image_risk = parse_json_or_fail(image_raw, ...)
ImageParsed ==
    /\ pc = "run_image_parse"
    /\ ~ParseFails(image_raw)
    /\ image_risk' = ParsedData(image_raw)
    /\ pc' = "run_render"
    /\ UNCHANGED <<runInputs, image_parts, calls, text_resp, image_resp,
                   text_raw, image_raw, text_risk, warned, failed, produced,
                   componentVars>>

\* The rest of the block: the verdict, the overlays, the tiles of both
\* sources, the highlighted caption and the download bundle.
Render ==
    /\ pc = "run_render"
    /\ produced' = RunOutputs
    /\ pc' = "run_done"
    /\ UNCHANGED <<runInputs, image_parts, calls, text_resp, image_resp,
                   text_raw, image_raw, text_risk, image_risk, warned,
                   failed, componentVars>>

NextRun ==
    \/ WarnNoInput \/ WarnNoCountry \/ PrepareImages
    \/ CallText \/ TextParseFails \/ TextParsed
    \/ CallImage \/ DefaultImage \/ ImageParseFails \/ ImageParsed
    \/ Render

SpecRun == InitRun /\ [][NextRun]_vars

CallCount(kind) == Cardinality({i \in DOMAIN calls : calls[i] = kind})

\* C11: a run triggered with no country, or with neither caption text nor
\* any upload, makes no external call and, once past the checks, has halted
\* with one warning and nothing else; in every run the calls made are none,
\* the text call alone, or the text call and then the image call; and the
\* image call is made only when at least one image part was prepared.
C11_InputChecksBeforeCalls ==
    /\ (country = <<>> \/ (copy_txt = <<>> /\ imgs = <<>>)) =>
           /\ calls = <<>>
           /\ pc # "run_go" =>
                  /\ pc = "run_stopped"
                  /\ Len(warned) = 1
                  /\ failed = <<>>
                  /\ produced = {}
    /\ calls \in {<<>>, <<"text">>, <<"text", "image">>}
    /\ CallCount("image") > 0 => image_parts # <<>>

\* A run with a caption and uploads but no country has halted on the
\* warning about the country.
C11_Witness ==
    /\ pc = "run_stopped"
    /\ country = <<>>
    /\ copy_txt # <<>>
    /\ imgs # <<>>
    /\ warned = <<"need_country">>
    /\ calls = <<>>

\* The text t holds a JSON object: some stretch of it parses as one.
HoldsObject(t) ==
    \E i \in DOMAIN t : \E j \in i..Len(t) : JsonLoads(SubSeq(t, i, j)) # JsonInvalid

\* The call failed: the client raised, or its output holds no JSON object.
CallFailed(resp) == resp.raises \/ ~HoldsObject(resp.text)

\* C12: each run makes each of the two calls at most once; when the text
\* call has failed (the client raised, or its output holds no parseable
\* JSON object) the run has halted at that step with the failure reported,
\* nothing produced, and no image call; when the image call has failed the
\* run has halted at that step with the failure reported and nothing
\* produced.
C12_FailedCallHaltsRun ==
    /\ CallCount("text") <= 1
    /\ CallCount("image") <= 1
    /\ (CallCount("text") = 1 /\ pc # "run_text_parse" /\ CallFailed(text_resp)) =>
           /\ pc = "run_stopped"
           /\ failed = <<"text">>
           /\ text_risk = Idle
           /\ produced = {}
           /\ calls = <<"text">>
    /\ (CallCount("image") = 1 /\ pc # "run_image_parse" /\ CallFailed(image_resp)) =>
           /\ pc = "run_stopped"
           /\ failed = <<"image">>
           /\ image_risk = Idle
           /\ produced = {}

(***************************************************************************)
(* Claims on the merge step and on the geometry of the entries returned by *)
(* dedupe_hotspots (SpecDedupe).                                           *)
(***************************************************************************)
MergedKeys == {"risks", "suggested_edits", "label", "severity"}

NoDuplicates(bag) == \A e \in BagToSet(bag) : CopiesIn(e, bag) = 1

\* after is what the claim says the kept entry k is once h is absorbed.
MergedAsClaimed(k, h, after) ==
    /\ DOMAIN after = DOMAIN k
    /\ \A key \in DOMAIN k \ MergedKeys : after[key] = k[key]
    /\ BagToSet(after.risks) = BagToSet(k.risks) \cup BagToSet(h.risks)
    /\ NoDuplicates(after.risks)
    /\ BagToSet(after.suggested_edits) =
           BagToSet(k.suggested_edits) \cup BagToSet(h.suggested_edits)
    /\ NoDuplicates(after.suggested_edits)
    /\ after.label = (IF k.label = "" THEN h.label ELSE k.label)
    /\ after.severity = (IF k.severity = "" THEN h.severity ELSE k.severity)

\* C13: in every step of dedupe_hotspots that absorbs the incoming hotspot
\* into a kept entry, that entry keeps its shape and geometry, its risks and
\* its suggested_edits become the unions of both (no duplicates), its label
\* and severity stay unless empty, in which case the incoming hotspot's are
\* adopted; the other kept entries are unchanged.
C13_MergeIsUnion ==
    [][(pc = "dd_scan" /\ pos' = pos + 1 /\ Len(kept') = Len(kept)) =>
          \E i \in DOMAIN kept :
              /\ \A j \in DOMAIN kept \ {i} : kept'[j] = kept[j]
              /\ MergedAsClaimed(kept[i], hs_sorted[pos], kept'[i])]_vars

\* The branch of _iou that divides by the union is taken.
IouDivides(b1, b2) == UnionArea(b1, b2) > 0

\* Every geometry field present on the entry is within [0,1].
GeometryInUnit(h) == \A key \in DOMAIN h \cap GeomKeys : 0 <= h[key] /\ h[key] <= Unit

\* The hotspot as given has a geometry field outside [0,1].
OutsideUnit(h) == ~GeometryInUnit(h)

MaxRanges == 3
MaxOffset == 4

RangePool == {r \in (0..MaxOffset) \X (0..MaxOffset) : r[1] < r[2]}
RangeLists == SeqsUpTo(RangePool, MaxRanges)

InitMergeRanges ==
    /\ pc = "mr_start"
    /\ in_ranges \in RangeLists
    /\ out_ranges = <<>>
    /\ caption = <<>> /\ flags = <<>> /\ ranges = <<>> /\ html_out = <<>>
    /\ IdleLevel /\ IdleSan /\ IdleAgg /\ IdleHot /\ IdleRun

\* out_ranges = _merge_ranges(in_ranges); in_ranges stays the list as it was
\* passed (the code sorts it in place).
CallMergeRanges ==
    /\ pc = "mr_start"
    /\ out_ranges' = merge_ranges(in_ranges)
    /\ pc' = "mr_done"
    /\ UNCHANGED <<runVars, in_ranges, caption, flags, ranges, html_out,
                   levelVars, sanVars, aggVars, hotVars>>

InitCaption == InitHighlight \/ InitMergeRanges

NextCaption == CollectRanges \/ RenderPlain \/ RenderHighlighted \/ CallMergeRanges

SpecCaption == InitCaption /\ [][NextCaption]_vars

\* The positions a list of ranges covers.
Positions(rs) == UNION {rs[n][1]..(rs[n][2] - 1) : n \in DOMAIN rs}

\* Sorted by start, each start strictly greater than the end before it.
Separated(rs) == \A n \in 2..Len(rs) : rs[n][1] > rs[n - 1][2]

EntityChars ==
    << [ent |-> EntityAmp, ch |-> "&"],
       [ent |-> EntityLt, ch |-> "<"],
       [ent |-> EntityGt, ch |-> ">"],
       [ent |-> <<"&", "q", "u", "o", "t", ";">>, ch |-> "\""],
       [ent |-> <<"&", "#", "x", "2", "7", ";">>, ch |-> "'"] >>

\* s from index i on with every entity replaced by its character.
RECURSIVE UnescapeFrom(_, _)
UnescapeFrom(s, i) ==
    IF i > Len(s) THEN <<>>
    ELSE LET hits == {n \in DOMAIN EntityChars : StartsWithAt(s, EntityChars[n].ent, i)}
         IN  IF hits = {} THEN <<s[i]>> \o UnescapeFrom(s, i + 1)
             ELSE LET n == CHOOSE m \in hits : TRUE
                  IN  <<EntityChars[n].ch>> \o UnescapeFrom(s, i + Len(EntityChars[n].ent))

\* C15: for any list of ranges, what _merge_ranges returns is sorted by
\* start with each start strictly greater than the end before it, and covers
\* exactly the positions the list covers; and the value highlight_caption
\* returns, with the wrapper markup removed and the escapes undone, is the
\* caption, each character once and in order.
C15_MergedRangesAndRoundTrip ==
    /\ pc = "mr_done" =>
           /\ Separated(out_ranges)
           /\ \A n \in DOMAIN out_ranges : out_ranges[n][1] < out_ranges[n][2]
           /\ Positions(out_ranges) = Positions(in_ranges)
    /\ pc \in {"cap_ranges", "cap_done"} => Separated(ranges)
    /\ pc = "cap_done" =>
           UnescapeFrom(WithoutSpanTags(CaptionBody(html_out), 1), 1) = caption

\* _merge_ranges has been applied to a list that is not sorted and holds two
\* ranges that touch, and has returned fewer ranges than it was given.
C15_Witness ==
    /\ pc = "mr_done"
    /\ \E a, b \in DOMAIN in_ranges : a < b /\ in_ranges[a][1] > in_ranges[b][1]
    /\ \E a, b \in DOMAIN in_ranges : in_ranges[a][2] = in_ranges[b][1]
    /\ Len(out_ranges) < Len(in_ranges)
    /\ Len(out_ranges) > 1

(***************************************************************************)
(* Claim on the verdict and the eight axis tiles of one run (SpecOverall). *)
(***************************************************************************)
\* severity_rank: order.get(level, 0)
severity_rank(level) ==
    CASE level = VerySafe -> 0
      [] level = Safe -> 1
      [] level = Caution -> 2
      [] level = Risk -> 3
      [] level = VeryRisky -> 4
      [] OTHER -> 0

\* The levels the eight tiles are labelled with: status_chip_html(score)
\* shows level_of(score).
TileLevels ==
    {level_of(tiles.text[k]) : k \in 1..Len(order)}
        \cup {level_of(tiles.image[k]) : k \in 1..Len(order)}

\* C16: for any two axis lists (entries without a score, repeated names and
\* names outside the four axes included) the level of the verdict is the
\* most severe of the levels of the eight tiles of the run, and an entry
\* without a score has the same score for the aggregator as for the tile
\* builder.
C16_VerdictMatchesTiles ==
    pc = "tiles_done" =>
        /\ overall.level \in TileLevels
        /\ \A l \in TileLevels : severity_rank(overall.level) >= severity_rank(l)
        /\ \A dims \in {text_dims, image_dims} : \A i \in 1..Len(dims) :
               "score" \notin DOMAIN dims[i] =>
                   AggScore(dims[i]) = TileScore(<<dims[i]>>, dims[i].name)

====
